---- MODULE Spec2Model ----
(***************************************************************************)
(* A model of src/main.py, the Telegram bot that answers text messages     *)
(* through a ladder of text providers, images through a ladder of image    *)
(* providers, and delivers long replies in segments on "Continue".         *)
(*                                                                         *)
(* A character is a one-character string; characters that cannot be        *)
(* written inside a TLA+ string are named ("BACKTICK", "U+201A").  A       *)
(* Python value is a record [t, v]: None, a str or a BytesIO.  The result  *)
(* of a call is a record [raised, value]: it returned value, or it raised. *)
(*                                                                         *)
(* Every handler is a coroutine: it runs without interruption from one     *)
(* await to the next, so each action below is the code between two awaits. *)
(* The provider calls are synchronous (requests, time.sleep): the handler  *)
(* keeps the event loop's thread (variable running) from the first         *)
(* provider call to the next await, and no other handler steps meanwhile.  *)
(***************************************************************************)
EXTENDS Integers, Sequences, FiniteSets, TLC

VARIABLES
  user_data,   \* context.user_data of each user: conversation_history, reply_chunks
  sent,        \* per user, the calls made to the chat transport, in order
  hs,          \* the handler coroutines (one record per slot)
  running,     \* the slot that holds the event loop's thread in synchronous code, or 0
  budget,      \* how many more updates the model dispatches
  concurrent_updates,  \* Application.concurrent_updates: handlers may overlap at awaits
  replied,     \* history variable: per user, every ai_reply of line 229, in order
  appended,    \* history variable: per user, every turn appended since the last reset
  probe_in,    \* the argument of the pure function under check
  probe_out    \* its result

vars ==
  <<user_data, sent, hs, running, budget, concurrent_updates, replied, appended,
    probe_in, probe_out>>

(***************************************************************************)
(* Bounds of the model.                                                    *)
(***************************************************************************)
\* updates dispatched in one behaviour of Spec
MaxUpdates == 3
\* text messages handled in one behaviour of SpecHistory
MaxMessages == 9
\* the texts of SpecSplit have up to MaxChunks * chunk_size + 1000 characters
MaxChunks == 3

(***************************************************************************)
(* Program constants.                                                      *)
(***************************************************************************)
\* line 233
chunk_size == 4000
\* line 224: the slice [-15:]
recent_turns == 15
\* line 135: range(20)
poll_attempts == 20
\* line 141: time.sleep(5)
poll_sleep == 5

Users == {"u1", "u2"}
Slots == {1, 2}

(***************************************************************************)
(* Python values and call results.                                         *)
(***************************************************************************)
None == [t |-> "None", v |-> <<>>]
Str(s) == [t |-> "str", v |-> s]
BytesIO(b) == [t |-> "BytesIO", v |-> b]

\* a variant of Truthy that is the test "x is not None"
Truthy_not_none(x) == x.t # "None"

\* bool(x): None and "" are falsy; a BytesIO object is always truthy
Truthy(x) ==
  CASE x.t = "None" -> FALSE
    [] x.t = "str" -> x.v # <<>>
    [] x.t = "BytesIO" -> TRUE

Return(x) == [raised |-> FALSE, value |-> x]
Raise == [raised |-> TRUE, value |-> None]

\* try: body / except Exception: return x
ExceptReturn(r, x) == IF r.raised THEN Return(x) ELSE r

Min(a, b) == IF a < b THEN a ELSE b
Max(a, b) == IF a > b THEN a ELSE b

\* a variant of LastN that is s[:n]
LastN_first(s, n) == SubSeq(s, 1, Min(n, Len(s)))

\* s[-n:] of a Python list, for n > 0
LastN(s, n) == SubSeq(s, Max(Len(s) - n, 0) + 1, Len(s))

\* range(a, stop, step) of Python, for step > 0
RECURSIVE range(_, _, _)
range(a, stop, step) ==
  IF a >= stop THEN <<>> ELSE <<a>> \o range(a + step, stop, step)

\* the least element of a non-empty set of integers
Least(S) == CHOOSE x \in S : \A y \in S : x <= y

(***************************************************************************)
(* Python's str.  A str is kept as its runs: the sequence of [c, n], n >= 1*)
(* times the character c, with no two neighbouring runs of the same        *)
(* character, so that equal strs are equal values and a reply of thousands *)
(* of characters stays small.  Every operator below yields that form.      *)
(***************************************************************************)
\* n times the character c
Rep(c, n) == IF n <= 0 THEN <<>> ELSE <<[c |-> c, n |-> n]>>

\* a + b
Cat(a, b) ==
  IF a = <<>> THEN b
  ELSE IF b = <<>> THEN a
  ELSE IF a[Len(a)].c = b[1].c
    THEN SubSeq(a, 1, Len(a) - 1) \o <<[c |-> b[1].c, n |-> a[Len(a)].n + b[1].n]>>
           \o Tail(b)
  ELSE a \o b

\* "".join(ss)
RECURSIVE Concat(_)
Concat(ss) == IF ss = <<>> THEN <<>> ELSE Cat(Head(ss), Concat(Tail(ss)))

\* sep.join(ss)
RECURSIVE Join(_, _)
Join(sep, ss) ==
  IF ss = <<>> THEN <<>>
  ELSE IF Len(ss) = 1 THEN ss[1]
  ELSE Cat(Cat(ss[1], sep), Join(sep, Tail(ss)))

\* the str of the characters chars
RECURSIVE S(_)
S(chars) == IF chars = <<>> THEN <<>> ELSE Cat(Rep(Head(chars), 1), S(Tail(chars)))

\* len(s)
RECURSIVE StrLen(_)
StrLen(s) == IF s = <<>> THEN 0 ELSE s[1].n + StrLen(Tail(s))

\* s[:k], for k >= 0
RECURSIVE Take(_, _)
Take(s, k) ==
  IF k <= 0 \/ s = <<>> THEN <<>>
  ELSE IF s[1].n <= k THEN <<s[1]>> \o Take(Tail(s), k - s[1].n)
  ELSE <<[c |-> s[1].c, n |-> k]>>

\* s[k:], for k >= 0
RECURSIVE Drop(_, _)
Drop(s, k) ==
  IF k <= 0 \/ s = <<>> THEN s
  ELSE IF s[1].n <= k THEN Drop(Tail(s), k - s[1].n)
  ELSE <<[c |-> s[1].c, n |-> s[1].n - k]>> \o Tail(s)

\* s[i:j], for 0 <= i
Slice(s, i, j) == Take(Drop(s, i), j - i)

\* the position (from 1) of the first character of the k-th run
RECURSIVE RunStart(_, _)
RunStart(s, k) == IF k = 1 THEN 1 ELSE RunStart(s, k - 1) + s[k - 1].n

\* the positions of the character c
PositionsOf(s, c) ==
  UNION {RunStart(s, k)..(RunStart(s, k) + s[k].n - 1) :
           k \in {k \in 1..Len(s) : s[k].c = c}}

Whitespace == {" ", "\n", "\t"}

\* s.strip()
RECURSIVE strip(_)
strip(s) ==
  IF s = <<>> THEN s
  ELSE IF s[1].c \in Whitespace THEN strip(Tail(s))
  ELSE IF s[Len(s)].c \in Whitespace THEN strip(SubSeq(s, 1, Len(s) - 1))
  ELSE s

(***************************************************************************)
(* format_for_telegram, lines 36-44.                                       *)
(***************************************************************************)
\* the positions where "**" stands
StarPairs(s) == {i \in PositionsOf(s, "*") : i + 1 \in PositionsOf(s, "*")}

\* Where r"\*\*(.+?)\*\*" matches when tried at position i: the position of the
\* closing "**" (0 when there is no match at i).  The group is lazy, at least one
\* character long, and "." does not match a newline.
BoldClose(s, i) ==
  IF i \notin StarPairs(s) THEN 0
  ELSE LET closes == {j \in StarPairs(s) : j >= i + 3}
       IN IF closes = {} THEN 0
          ELSE LET j == Least(closes)
               IN IF PositionsOf(s, "\n") \cap ((i + 2)..(j - 1)) # {} THEN 0 ELSE j

\* re.sub(r"\*\*(.+?)\*\*", r"*\1*", s), scanning from position from: the
\* leftmost match is replaced and the scan goes on after it
RECURSIVE BoldSub(_, _)
BoldSub(s, from) ==
  LET starts == {i \in StarPairs(s) : i >= from /\ BoldClose(s, i) # 0}
  IN IF starts = {} THEN Drop(s, from - 1)
     ELSE LET i == Least(starts)
              j == BoldClose(s, i)
          IN Concat(<<Slice(s, from - 1, i - 1), Rep("*", 1), Slice(s, i + 1, j - 1),
                      Rep("*", 1), BoldSub(s, j + 2)>>)

\* line 41
special_chars ==
  <<"_", "[", "]", "(", ")", "~", "BACKTICK", ">", "#", "+", "-", "=", "|", "{", "}",
    ".", "!">>

\* n times "\\" + ch
RECURSIVE Escaped(_, _)
Escaped(ch, n) ==
  IF n = 0 THEN <<>> ELSE <<[c |-> "\\", n |-> 1], [c |-> ch, n |-> 1]>> \o Escaped(ch, n - 1)

\* lines 42-43.  Each pass of the loop puts "\\" before every ch; the backslash is
\* not in special_chars, so no pass touches what another pass put in, and the loop
\* comes to one pass that puts "\\" before every character of special_chars.
RECURSIVE Escape(_)
Escape(s) ==
  IF s = <<>> THEN <<>>
  ELSE Cat(IF \E k \in 1..Len(special_chars) : special_chars[k] = s[1].c
             THEN Escaped(s[1].c, s[1].n)
             ELSE <<s[1]>>,
           Escape(Tail(s)))

format_for_telegram(text) == Escape(BoldSub(text, 1))

\* a variant of Chunks whose slices end one character early
Chunks_short(ai_reply) ==
  LET starts == range(0, StrLen(ai_reply), chunk_size)
  IN [k \in 1..Len(starts) |-> Slice(ai_reply, starts[k], starts[k] + chunk_size - 1)]

(***************************************************************************)
(* The split of line 234.                                                  *)
(***************************************************************************)
Chunks(ai_reply) ==
  LET starts == range(0, StrLen(ai_reply), chunk_size)
  IN [k \in 1..Len(starts) |-> Slice(ai_reply, starts[k], starts[k] + chunk_size)]

(***************************************************************************)
(* Fixed texts.                                                            *)
(***************************************************************************)
\* line 200 (and 227)
FAILURE_REPLY ==
  S(<<"U+201A", "U+00F6", "U+2020", "U+00D4", "U+220F", "U+00E8", " ", "S", "o", "r", "r",
      "y", ",", " ", "I", " ", "c", "o", "u", "l", "d", "n", "'", "t", " ", "g", "e", "n",
      "e", "r", "a", "t", "e", " ", "a", " ", "r", "e", "p", "l", "y", ".">>)

\* line 280
FAILURE_IMAGE ==
  S(<<"U+201A", "U+00F6", "U+2020", "U+00D4", "U+220F", "U+00E8", " ", "S", "o", "r", "r",
      "y", ",", " ", "I", " ", "c", "o", "u", "l", "d", "n", "'", "t", " ", "g", "e", "n",
      "e", "r", "a", "t", "e", " ", "t", "h", "e", " ", "A", "I", " ", "i", "m", "a", "g",
      "e", ".">>)

\* line 236: the prefix of the first segment
ROBOT == S(<<"U+F8FF", "U+00FC", "U+00A7", "U+00F1", " ">>)

(***************************************************************************)
(* What the network answers.  A call of requests raises (exc), never       *)
(* returns (hang: possible only where the call sets no timeout), or        *)
(* returns a response with a status code and a body.  shape "malformed"    *)
(* stands for every body on which the code's accesses raise (not JSON, a   *)
(* missing key, an empty list); with shape "ok" content is what the        *)
(* accesses yield.                                                         *)
(***************************************************************************)
NetError == [exc |-> TRUE, hang |-> FALSE, status |-> 0, shape |-> "none", content |-> None]
NoAnswer == [exc |-> FALSE, hang |-> TRUE, status |-> 0, shape |-> "none", content |-> None]
Http(status, shape, content) ==
  [exc |-> FALSE, hang |-> FALSE, status |-> status, shape |-> shape, content |-> content]

\* a provider's signal of transient load: an error status (503) with a body that
\* says the model is loading
Loading == Http(503, "loading", None)

\* what a handler keeps of the last response it got
Outline(resp) == [exc |-> resp.exc, status |-> resp.status, shape |-> resp.shape]

\* the answers of a chat-completion or generateContent endpoint, over the texts ts
TextResponses(ts) ==
  {NetError, Http(500, "malformed", None), Http(200, "malformed", None),
   Http(200, "ok", None), Http(200, "ok", Str(<<>>))}
    \cup {Http(200, "ok", Str(t)) : t \in ts}

(***************************************************************************)
(* Text providers, lines 50-79.                                            *)
(***************************************************************************)
\* lines 52-60: the body of the try
get_gemini_text_try(prompt, resp) ==
  IF resp.exc THEN Raise
  ELSE IF resp.status # 200 THEN Return(None)
  ELSE IF resp.shape # "ok" THEN Raise
  ELSE Return(resp.content)

get_gemini_text(prompt, resp) == ExceptReturn(get_gemini_text_try(prompt, resp), None)

\* lines 67-76: the body of the try
get_openai_text_try(messages, resp) ==
  IF resp.exc THEN Raise
  ELSE IF resp.status # 200 THEN Return(None)
  ELSE IF resp.shape # "ok" THEN Raise
  ELSE Return(resp.content)

\* a variant of get_openai_text without the except of lines 77-79
get_openai_text_no_except(messages, resp) == get_openai_text_try(messages, resp)

get_openai_text(messages, resp) == ExceptReturn(get_openai_text_try(messages, resp), None)

(***************************************************************************)
(* Image providers, lines 87-144.                                          *)
(***************************************************************************)
Blob(d) == [t |-> "Blob", v |-> d]

\* lines 94-99: the first part that carries inline data
RECURSIVE FirstInline(_)
FirstInline(parts) ==
  IF parts = <<>> THEN Return(None)
  ELSE IF Head(parts) # None THEN Return(BytesIO(Head(parts).v))
  ELSE FirstInline(Tail(parts))

\* lines 89-99: the body of the try; content.parts is the list of the parts'
\* inline_data
get_gemini_image_sdk_try(prompt, resp) ==
  IF resp.exc THEN Raise
  ELSE IF resp.shape # "ok" THEN Raise
  ELSE FirstInline(resp.content.parts)

get_gemini_image_sdk(prompt, resp) ==
  ExceptReturn(get_gemini_image_sdk_try(prompt, resp), None)

\* lines 106-118: the body of the try; content is [has_data, data], data the list
\* of what .get("url") yields for each item
get_openai_image_try(prompt, resp) ==
  IF resp.exc THEN Raise
  ELSE IF resp.status # 200 THEN Return(None)
  ELSE IF resp.shape # "ok" THEN Raise
  ELSE IF resp.content.has_data /\ Len(resp.content.data) > 0
    THEN Return(resp.content.data[1])
  ELSE Return(None)

get_openai_image(prompt, resp) == ExceptReturn(get_openai_image_try(prompt, resp), None)

\* lines 130-134: the submission; the result is [polling, result]: go on to the
\* polling loop, or leave get_replicate_image with result
get_replicate_image_submit(prompt, resp) ==
  IF resp.exc THEN [polling |-> FALSE, result |-> Return(None)]
  ELSE IF resp.status # 201 THEN [polling |-> FALSE, result |-> Return(None)]
  ELSE IF resp.shape # "ok" THEN [polling |-> FALSE, result |-> Return(None)]
  ELSE [polling |-> TRUE, result |-> Return(None)]

\* a variant of get_replicate_image_poll that takes "failed" for a status to wait on
get_replicate_image_poll_failed_on(polls, resp) ==
  IF resp.exc \/ resp.shape # "ok"
    THEN [polling |-> FALSE, slept |-> 0, result |-> Return(None)]
  ELSE IF resp.content.status = "succeeded"
    THEN [polling |-> FALSE, slept |-> 0, result |-> Return(resp.content.output[1])]
  ELSE [polling |-> polls + 1 < poll_attempts, slept |-> poll_sleep, result |-> Return(None)]

\* A variant of get_replicate_image_poll that does not return at "succeeded": it
\* sleeps and polls again.
get_replicate_image_poll_on(polls, resp) ==
  IF resp.exc \/ resp.shape # "ok"
    THEN [polling |-> FALSE, slept |-> 0, result |-> Return(None)]
  ELSE IF resp.content.status = "failed"
    THEN [polling |-> FALSE, slept |-> 0, result |-> Return(None)]
  ELSE [polling |-> polls + 1 < poll_attempts, slept |-> poll_sleep,
        result |-> IF resp.content.status = "succeeded"
                     THEN Return(resp.content.output[1]) ELSE Return(None)]

\* lines 136-141, one pass of the loop with polls passes made before it; content
\* is [status, output].  The result is [polling, slept, result]: sleep and poll again,
\* or leave get_replicate_image with result (line 138, line 140, the except of
\* line 142, or the end of the loop, after which the function returns None)
get_replicate_image_poll(polls, resp) ==
  IF resp.exc \/ resp.shape # "ok"
    THEN [polling |-> FALSE, slept |-> 0, result |-> Return(None)]
  ELSE IF resp.content.status = "succeeded"
    THEN [polling |-> FALSE, slept |-> 0, result |-> Return(resp.content.output[1])]
  ELSE IF resp.content.status = "failed"
    THEN [polling |-> FALSE, slept |-> 0, result |-> Return(None)]
  ELSE [polling |-> polls + 1 < poll_attempts, slept |-> poll_sleep, result |-> Return(None)]

\* the image ladder's answers
GeminiImageResponses ==
  {NetError, Http(200, "malformed", None), Http(200, "ok", [parts |-> <<>>]),
   Http(200, "ok", [parts |-> <<None>>]),
   Http(200, "ok", [parts |-> <<None, Blob("png1"), Blob("png2")>>])}

OpenAIImageResponses ==
  {NetError, Http(500, "malformed", None), Http(200, "malformed", None),
   Http(200, "ok", [has_data |-> FALSE, data |-> <<>>]),
   Http(200, "ok", [has_data |-> TRUE, data |-> <<>>]),
   Http(200, "ok", [has_data |-> TRUE, data |-> <<None>>]),
   Http(200, "ok", [has_data |-> TRUE, data |-> <<Str(S(<<"url1">>)), Str(S(<<"url2">>))>>])}

ReplicateSubmitResponses ==
  {NetError, Http(500, "malformed", None), Http(201, "malformed", None),
   Http(201, "ok", Str(S(<<"prediction_url">>)))}

Prediction(status, output) == Http(200, "ok", [status |-> status, output |-> output])

\* line 136 sets no timeout: the call may never return
ReplicatePollResponses ==
  {NetError, NoAnswer, Http(200, "malformed", None),
   Prediction("starting", <<>>), Prediction("processing", <<>>),
   Prediction("failed", <<>>),
   Prediction("succeeded", <<Str(S(<<"out2">>)), Str(S(<<"out3">>))>>)}

(***************************************************************************)
(* The state of the bot.                                                   *)
(***************************************************************************)
\* a key of context.user_data: missing, or a list
Missing == [t |-> "missing", v |-> <<>>]
List(s) == [t |-> "list", v |-> s]

Turn(role, content) == [role |-> role, content |-> content]

\* a call of the chat transport, named by the line that makes it
Msg(line, method, text, photo, reply_markup) ==
  [line |-> line, method |-> method, text |-> text, photo |-> photo,
   reply_markup |-> reply_markup]

\* A handler coroutine: its kind, its user, where it stands (pc), and its locals.
\* History fields: calls, the provider functions called so far; rets, what each
\* gave; last, the outline of the last response; polls and slept, the passes of the
\* polling loop and the time slept in it; succeeded, the pass on which the status
\* was first "succeeded" (0: none) and that payload's output; outcomes, the
\* replies and photos the handler has sent as the request's result; job, the
\* status the last poll reported ("none": no poll yet, or no readable status);
\* posts, the calls of requests.post the text provider last called has made.
Handler(kind, user, pc, arg) ==
  [kind |-> kind, user |-> user, pc |-> pc, arg |-> arg, messages |-> <<>>, i |-> 0,
   calls |-> <<>>, rets |-> <<>>, last |-> Outline(NetError), reply |-> None,
   ai_reply |-> <<>>, chunks |-> <<>>, next_chunk |-> None, image |-> None,
   polls |-> 0, slept |-> 0, succeeded |-> [at |-> 0, output |-> <<>>], outcomes |-> 0,
   job |-> "none", posts |-> 0]

NoHandler == Handler("none", "u1", "idle", <<>>)

Free(h) == hs[h].pc \in {"idle", "done"}

\* The application hands an update to a handler: in the lowest free slot, when the
\* event loop's thread is free, and, unless concurrent_updates is set, only when
\* the handler of the update before has finished.
Dispatchable(h) ==
  /\ budget > 0
  /\ running = 0
  /\ Free(h)
  /\ \A g \in Slots : g < h => ~Free(g)
  /\ concurrent_updates \/ \A g \in Slots : Free(g)

\* a handler suspended at an await goes on when the event loop's thread is free
Resumable(h, kind, pc) ==
  /\ hs[h].kind = kind
  /\ hs[h].pc = pc
  /\ running = 0

Send(u, m) == sent' = [sent EXCEPT ![u] = Append(@, m)]

(***************************************************************************)
(* start, lines 203-213.                                                   *)
(***************************************************************************)
\* lines 204-212, up to the await of reply_text
start(h, u) ==
  /\ Dispatchable(h)
  /\ hs' = [hs EXCEPT ![h] = Handler("start", u, "reset", <<>>)]
  /\ Send(u, Msg(212, "reply_text", S(<<"greeting">>), None, FALSE))
  /\ budget' = budget - 1
  /\ UNCHANGED <<user_data, running, concurrent_updates, replied, appended, probe_in, probe_out>>

\* a variant of start_reset that leaves the history as it is
start_reset_skipped(h) ==
  /\ Resumable(h, "start", "reset")
  /\ hs' = [hs EXCEPT ![h].pc = "done"]
  /\ UNCHANGED <<user_data, sent, running, budget, concurrent_updates, replied, appended,
                 probe_in, probe_out>>

\* line 213
start_reset(h) ==
  /\ Resumable(h, "start", "reset")
  /\ user_data' = [user_data EXCEPT ![hs[h].user].conversation_history = List(<<>>)]
  /\ appended' = [appended EXCEPT ![hs[h].user] = <<>>]
  /\ hs' = [hs EXCEPT ![h].pc = "done"]
  /\ UNCHANGED <<sent, running, budget, concurrent_updates, replied, probe_in, probe_out>>

(***************************************************************************)
(* generate_laddered_reply, lines 188-200.                                 *)
(***************************************************************************)
\* lines 189-192
ai_funcs == <<"get_openai_text", "lambda">>

\* line 195: func(messages); the lambda of line 191 joins the contents
CallText(func, messages, resp) ==
  CASE func = "get_openai_text" -> get_openai_text(messages, resp)
    [] func = "lambda" ->
         get_gemini_text(Join(S(<<"\n">>), [k \in 1..Len(messages) |-> messages[k].content]),
                         resp)

\* A variant of generate_laddered_reply_next with no return inside the loop: every
\* function is called, and the last reply obtained is returned.
generate_laddered_reply_no_return(i, r) ==
  IF i < Len(ai_funcs)
    THEN [done |-> FALSE, i |-> i + 1,
          result |-> IF ~r.raised /\ Truthy(r.value) THEN r.value ELSE None]
  ELSE IF ~r.raised /\ Truthy(r.value) THEN [done |-> TRUE, i |-> i, result |-> r.value]
  ELSE [done |-> TRUE, i |-> i, result |-> Str(FAILURE_REPLY)]

\* lines 193-200, after the i-th function gave r: return its reply, go on to the
\* next function, or return the failure text
generate_laddered_reply_next(i, r) ==
  IF ~r.raised /\ Truthy(r.value) THEN [done |-> TRUE, i |-> i, result |-> r.value]
  ELSE IF i < Len(ai_funcs) THEN [done |-> FALSE, i |-> i + 1, result |-> None]
  ELSE [done |-> TRUE, i |-> i, result |-> Str(FAILURE_REPLY)]

\* one pass of the loop of line 193
generate_laddered_reply(h, resp) ==
  /\ hs[h].kind = "msg"
  /\ hs[h].pc = "ladder"
  /\ running = h
  /\ LET func == ai_funcs[hs[h].i]
         r == CallText(func, hs[h].messages, resp)
         nx == generate_laddered_reply_next(hs[h].i, r)
     IN hs' = [hs EXCEPT ![h].calls = Append(@, func),
                         ![h].rets = Append(@, r),
                         ![h].last = Outline(resp),
                         ![h].posts = 1,
                         ![h].i = nx.i,
                         ![h].reply = nx.result,
                         ![h].pc = IF nx.done THEN "reply" ELSE "ladder"]
  /\ UNCHANGED <<user_data, sent, running, budget, concurrent_updates, replied, appended,
                 probe_in, probe_out>>

(***************************************************************************)
(* handle_message, lines 215-247.                                          *)
(***************************************************************************)
\* lines 216-225, up to the call of generate_laddered_reply
handle_message(h, u, text) ==
  /\ Dispatchable(h)
  /\ LET stripped == strip(text)
         old == user_data[u].conversation_history
         history == Append(IF old.t = "missing" THEN <<>> ELSE old.v,
                           Turn("user", stripped))
     IN /\ user_data' = [user_data EXCEPT ![u].conversation_history = List(history)]
        /\ appended' = [appended EXCEPT ![u] = Append(@, Turn("user", stripped))]
        /\ hs' = [hs EXCEPT ![h] =
                    [Handler("msg", u, "ladder", stripped) EXCEPT
                       !.messages = LastN(history, recent_turns), !.i = 1]]
  /\ running' = h
  /\ budget' = budget - 1
  /\ UNCHANGED <<sent, concurrent_updates, replied, probe_in, probe_out>>

\* lines 226-238, up to the await of the first reply_text
handle_message_reply(h) ==
  /\ hs[h].kind = "msg"
  /\ hs[h].pc = "reply"
  /\ running = h
  /\ LET u == hs[h].user
         raw == IF ~Truthy(hs[h].reply) THEN Str(FAILURE_REPLY) ELSE hs[h].reply
         ai_reply == format_for_telegram(raw.v)
         chunks == Chunks(ai_reply)
     IN /\ user_data' = [user_data EXCEPT ![u].conversation_history =
                           List(Append(@.v, Turn("assistant", ai_reply)))]
        /\ replied' = [replied EXCEPT ![u] = Append(@, ai_reply)]
        /\ appended' = [appended EXCEPT ![u] = Append(@, Turn("assistant", ai_reply))]
        /\ IF chunks = <<>>
             THEN \* chunks[0] raises IndexError
                  /\ hs' = [hs EXCEPT ![h].ai_reply = ai_reply, ![h].pc = "done"]
                  /\ UNCHANGED sent
             ELSE /\ hs' = [hs EXCEPT ![h].ai_reply = ai_reply, ![h].chunks = chunks,
                                      ![h].outcomes = @ + 1, ![h].pc = "more"]
                  /\ Send(u, Msg(235, "reply_text", Cat(ROBOT, chunks[1]), None, FALSE))
  /\ running' = 0
  /\ UNCHANGED <<budget, concurrent_updates, probe_in, probe_out>>

\* a variant of handle_message_more that queues chunks instead of chunks[1:]
handle_message_more_all(h) ==
  /\ Resumable(h, "msg", "more")
  /\ LET u == hs[h].user
     IN IF Len(hs[h].chunks) > 1
          THEN /\ user_data' = [user_data EXCEPT ![u].reply_chunks = List(hs[h].chunks)]
               /\ Send(u, Msg(244, "reply_text", S(<<"Message too long">>), None, TRUE))
          ELSE UNCHANGED <<user_data, sent>>
  /\ hs' = [hs EXCEPT ![h].pc = "done"]
  /\ UNCHANGED <<running, budget, concurrent_updates, replied, appended, probe_in,
                 probe_out>>

\* lines 239-247
handle_message_more(h) ==
  /\ Resumable(h, "msg", "more")
  /\ LET u == hs[h].user
     IN IF Len(hs[h].chunks) > 1
          THEN /\ user_data' = [user_data EXCEPT ![u].reply_chunks =
                                  List(Tail(hs[h].chunks))]
               /\ Send(u, Msg(244, "reply_text", S(<<"Message too long">>), None, TRUE))
          ELSE UNCHANGED <<user_data, sent>>
  /\ hs' = [hs EXCEPT ![h].pc = "done"]
  /\ UNCHANGED <<running, budget, concurrent_updates, replied, appended, probe_in, probe_out>>

(***************************************************************************)
(* continue_reply, lines 249-265.                                          *)
(***************************************************************************)
\* lines 250-251, up to the await of query.answer
continue_reply(h, u) ==
  /\ Dispatchable(h)
  /\ hs' = [hs EXCEPT ![h] = Handler("continue", u, "pop", <<>>)]
  /\ Send(u, Msg(251, "answer", <<>>, None, FALSE))
  /\ budget' = budget - 1
  /\ UNCHANGED <<user_data, running, concurrent_updates, replied, appended, probe_in, probe_out>>

\* a variant of continue_reply_pop without the test of line 252: with nothing
\* queued it sends an empty segment
continue_reply_pop_untested(h) ==
  /\ Resumable(h, "continue", "pop")
  /\ LET u == hs[h].user
         reply_chunks == user_data[u].reply_chunks.v
         next_chunk == IF reply_chunks # <<>> THEN Head(reply_chunks) ELSE <<>>
     IN /\ user_data' = [user_data EXCEPT ![u].reply_chunks =
                           List(IF reply_chunks # <<>> THEN Tail(reply_chunks) ELSE <<>>)]
        /\ hs' = [hs EXCEPT ![h].next_chunk = Str(next_chunk), ![h].pc = "more"]
        /\ Send(u, Msg(254, "reply_text", next_chunk, None, FALSE))
  /\ UNCHANGED <<running, budget, concurrent_updates, replied, appended, probe_in,
                 probe_out>>

\* a variant of continue_reply_pop that sends reply_chunks[0] and leaves it queued
\* across the await
continue_reply_pop_peek(h) ==
  /\ Resumable(h, "continue", "pop")
  /\ LET u == hs[h].user
         reply_chunks == user_data[u].reply_chunks
     IN IF reply_chunks.t # "missing" /\ reply_chunks.v # <<>>
          THEN /\ hs' = [hs EXCEPT ![h].next_chunk = Str(Head(reply_chunks.v)),
                                   ![h].pc = "more"]
               /\ Send(u, Msg(254, "reply_text", Head(reply_chunks.v), None, FALSE))
               /\ UNCHANGED user_data
          ELSE /\ hs' = [hs EXCEPT ![h].pc = "done"]
               /\ UNCHANGED <<user_data, sent>>
  /\ UNCHANGED <<running, budget, concurrent_updates, replied, appended, probe_in,
                 probe_out>>

\* lines 252-257, up to the await of reply_text
continue_reply_pop(h) ==
  /\ Resumable(h, "continue", "pop")
  /\ LET u == hs[h].user
         reply_chunks == user_data[u].reply_chunks
     IN IF reply_chunks.t # "missing" /\ reply_chunks.v # <<>>
          THEN /\ user_data' = [user_data EXCEPT ![u].reply_chunks =
                                  List(Tail(reply_chunks.v))]
               /\ hs' = [hs EXCEPT ![h].next_chunk = Str(Head(reply_chunks.v)),
                                   ![h].pc = "more"]
               /\ Send(u, Msg(254, "reply_text", Head(reply_chunks.v), None, FALSE))
          ELSE /\ hs' = [hs EXCEPT ![h].pc = "done"]
               /\ UNCHANGED <<user_data, sent>>
  /\ UNCHANGED <<running, budget, concurrent_updates, replied, appended, probe_in, probe_out>>

\* lines 258-265
continue_reply_more(h) ==
  /\ Resumable(h, "continue", "more")
  /\ IF user_data[hs[h].user].reply_chunks.v # <<>>
       THEN Send(hs[h].user, Msg(262, "reply_text", S(<<"Continue reading">>), None, TRUE))
       ELSE UNCHANGED sent
  /\ hs' = [hs EXCEPT ![h].pc = "done"]
  /\ UNCHANGED <<user_data, running, budget, concurrent_updates, replied, appended, probe_in,
                 probe_out>>

(***************************************************************************)
(* get_random_image, lines 146-155, and get_replicate_image, lines 123-144.*)
(***************************************************************************)
\* line 147
funcs == <<"get_gemini_image_sdk", "get_openai_image", "get_replicate_image">>

\* line 150, for the two functions that make one call
CallImage(func, prompt, resp) ==
  CASE func = "get_gemini_image_sdk" -> get_gemini_image_sdk(prompt, resp)
    [] func = "get_openai_image" -> get_openai_image(prompt, resp)

\* A variant of get_random_image_next that gives up at the first function that
\* fails.
get_random_image_gives_up(i, r) ==
  IF ~r.raised /\ Truthy(r.value) THEN [done |-> TRUE, i |-> i, result |-> r.value]
  ELSE [done |-> TRUE, i |-> i, result |-> None]

\* lines 148-155, after the i-th function gave r: return its image, go on to the
\* next function, or return None
get_random_image_next(i, r) ==
  IF ~r.raised /\ Truthy(r.value) THEN [done |-> TRUE, i |-> i, result |-> r.value]
  ELSE IF i < Len(funcs) THEN [done |-> FALSE, i |-> i + 1, result |-> None]
  ELSE [done |-> TRUE, i |-> i, result |-> None]

\* the handler's record once the i-th function has given r
AfterImageCall(rec, r) ==
  LET nx == get_random_image_next(rec.i, r)
  IN [rec EXCEPT !.rets = Append(@, r), !.i = nx.i, !.image = nx.result,
                 !.pc = IF nx.done THEN "result" ELSE "ladder"]

\* one pass of the loop of line 148 for a function that makes one call, when that
\* function is called and the network answers resp; the first pass follows the
\* await of line 273
get_random_image(h, called, resp) ==
  /\ hs[h].kind = "imagine"
  /\ hs[h].pc = "ladder"
  /\ running \in {0, h}
  /\ funcs[hs[h].i] = called
  /\ LET func == funcs[hs[h].i]
         rec == [hs[h] EXCEPT !.calls = Append(@, func),
                              !.last = Outline(resp)]
     IN hs' = [hs EXCEPT ![h] = AfterImageCall(rec, CallImage(func, hs[h].arg, resp))]
  /\ running' = h
  /\ UNCHANGED <<user_data, sent, budget, concurrent_updates, replied, appended, probe_in,
                 probe_out>>

\* the pass of the loop of line 148 that calls get_replicate_image: lines 124-134
get_replicate_image(h, resp) ==
  /\ hs[h].kind = "imagine"
  /\ hs[h].pc = "ladder"
  /\ running \in {0, h}
  /\ funcs[hs[h].i] = "get_replicate_image"
  /\ LET submitted == get_replicate_image_submit(hs[h].arg, resp)
         rec == [hs[h] EXCEPT !.calls = Append(@, funcs[hs[h].i]),
                              !.last = Outline(resp), !.polls = 0, !.slept = 0]
     IN hs' = [hs EXCEPT ![h] =
                 IF submitted.polling THEN [rec EXCEPT !.pc = "poll"]
                 ELSE AfterImageCall(rec, submitted.result)]
  /\ running' = h
  /\ UNCHANGED <<user_data, sent, budget, concurrent_updates, replied, appended, probe_in,
                 probe_out>>

\* one pass of the loop of line 135; a call of line 136 that never returns leaves
\* the handler, and the thread it holds, in that call
get_replicate_image_loop(h, resp) ==
  /\ hs[h].kind = "imagine"
  /\ hs[h].pc = "poll"
  /\ running = h
  /\ IF resp.hang
       THEN hs' = [hs EXCEPT ![h].polls = @ + 1, ![h].job = "none", ![h].pc = "hung"]
       ELSE LET polled == get_replicate_image_poll(hs[h].polls, resp)
                rec == [hs[h] EXCEPT
                         !.polls = @ + 1, !.slept = @ + polled.slept,
                         !.last = Outline(resp),
                         !.job = IF resp.exc \/ resp.shape # "ok" THEN "none"
                                 ELSE resp.content.status,
                         !.succeeded =
                           IF resp.shape = "ok" /\ resp.content.status = "succeeded"
                                /\ @.at = 0
                             THEN [at |-> hs[h].polls + 1, output |-> resp.content.output]
                             ELSE @]
            IN hs' = [hs EXCEPT ![h] =
                        IF polled.polling THEN rec
                        ELSE AfterImageCall(rec, polled.result)]
  /\ UNCHANGED <<user_data, sent, running, budget, concurrent_updates, replied, appended,
                 probe_in, probe_out>>

(***************************************************************************)
(* imagine_command, lines 267-280.                                         *)
(***************************************************************************)
\* lines 268-272, up to the await of reply_text
imagine_command(h, u, args) ==
  /\ Dispatchable(h)
  /\ IF args = <<>>
       THEN /\ hs' = [hs EXCEPT ![h] = Handler("imagine", u, "done", <<>>)]
            /\ Send(u, Msg(269, "reply_text", S(<<"Usage">>), None, FALSE))
       ELSE /\ hs' = [hs EXCEPT ![h] = Handler("imagine", u, "action", Join(S(<<" ">>), args))]
            /\ Send(u, Msg(272, "reply_text", S(<<"Generating">>), None, FALSE))
  /\ budget' = budget - 1
  /\ UNCHANGED <<user_data, running, concurrent_updates, replied, appended, probe_in, probe_out>>

\* line 273, up to the await of send_chat_action
imagine_chat_action(h) ==
  /\ Resumable(h, "imagine", "action")
  /\ hs' = [hs EXCEPT ![h].pc = "ladder", ![h].i = 1]
  /\ Send(hs[h].user, Msg(273, "send_chat_action", <<>>, None, FALSE))
  /\ UNCHANGED <<user_data, running, budget, concurrent_updates, replied, appended, probe_in,
                 probe_out>>

\* a variant of imagine_result without the elif of line 277: an image that is a
\* str gets the failure notice
imagine_result_no_elif(h) ==
  /\ hs[h].kind = "imagine"
  /\ hs[h].pc = "result"
  /\ running = h
  /\ LET image == hs[h].image
         caption == Cat(S(<<"Generated: ">>), hs[h].arg)
     IN Send(hs[h].user,
             CASE image.t = "BytesIO" -> Msg(276, "reply_photo", caption, image, FALSE)
               [] OTHER -> Msg(280, "reply_text", FAILURE_IMAGE, None, FALSE))
  /\ hs' = [hs EXCEPT ![h].outcomes = @ + 1, ![h].pc = "done"]
  /\ running' = 0
  /\ UNCHANGED <<user_data, budget, concurrent_updates, replied, appended, probe_in,
                 probe_out>>

\* lines 275-280
imagine_result(h) ==
  /\ hs[h].kind = "imagine"
  /\ hs[h].pc = "result"
  /\ running = h
  /\ LET image == hs[h].image
         caption == Cat(S(<<"Generated: ">>), hs[h].arg)
     IN Send(hs[h].user,
             CASE image.t = "BytesIO" -> Msg(276, "reply_photo", caption, image, FALSE)
               [] image.t = "str" -> Msg(278, "reply_photo", caption, image, FALSE)
               [] OTHER -> Msg(280, "reply_text", FAILURE_IMAGE, None, FALSE))
  /\ hs' = [hs EXCEPT ![h].outcomes = @ + 1, ![h].pc = "done"]
  /\ running' = 0
  /\ UNCHANGED <<user_data, budget, concurrent_updates, replied, appended, probe_in, probe_out>>

(***************************************************************************)
(* The bot: main, lines 293-300.                                           *)
(***************************************************************************)
\* what the users type, and what the text providers answer
UserTexts == {S(<<" ", "h", "i", "\n">>)}
\* one segment; three segments; two segments once the "." is escaped
ReplyTexts ==
  {S(<<"*", "*", "o", "k", "*", "*", ".">>),
   Rep("a", 2 * chunk_size + 1000),
   Cat(Rep("b", chunk_size - 1), S(<<".">>))}
ImagineArgs == {<<>>, <<S(<<"a">>), S(<<"c", "a", "t">>)>>}

InitBot(n, concurrent) ==
  /\ user_data = [u \in Users |-> [conversation_history |-> Missing,
                                   reply_chunks |-> Missing]]
  /\ sent = [u \in Users |-> <<>>]
  /\ hs = [h \in Slots |-> NoHandler]
  /\ running = 0
  /\ budget = n
  /\ concurrent_updates = concurrent
  /\ replied = [u \in Users |-> <<>>]
  /\ appended = [u \in Users |-> <<>>]
  /\ probe_in = <<>>
  /\ probe_out = [set |-> FALSE, v |-> <<>>]

\* line 294 sets no concurrent_updates: one update is handled at a time
Init == InitBot(MaxUpdates, FALSE)

Next ==
  \E h \in Slots :
    \/ \E u \in {"u1"} : start(h, u)
    \/ start_reset(h)
    \/ \E u \in {"u1"} : \E text \in UserTexts : handle_message(h, u, text)
    \/ \E resp \in TextResponses(ReplyTexts) : generate_laddered_reply(h, resp)
    \/ handle_message_reply(h)
    \/ handle_message_more(h)
    \/ \E u \in {"u1"} : continue_reply(h, u)
    \/ continue_reply_pop(h)
    \/ continue_reply_more(h)
    \/ \E u \in {"u1"} : \E args \in ImagineArgs : imagine_command(h, u, args)
    \/ imagine_chat_action(h)
    \/ \E resp \in GeminiImageResponses : get_random_image(h, "get_gemini_image_sdk", resp)
    \/ \E resp \in OpenAIImageResponses : get_random_image(h, "get_openai_image", resp)
    \/ \E resp \in ReplicateSubmitResponses : get_replicate_image(h, resp)
    \/ \E resp \in ReplicatePollResponses : get_replicate_image_loop(h, resp)
    \/ imagine_result(h)

Spec == Init /\ [][Next]_vars

(***************************************************************************)
(* The bot with concurrent_updates set: the handlers of up to two updates  *)
(* overlap, each running from one await to the next.  Text messages and    *)
(* Continue only.                                                          *)
(***************************************************************************)
\* updates dispatched in one behaviour of SpecConcurrent
MaxConcurrent == 3

\* a reply of three segments and a reply of one
ConcurrentReplies == {Rep("a", 2 * chunk_size + 1000), S(<<"o", "k">>)}

InitConcurrent == InitBot(MaxConcurrent, TRUE)

NextConcurrent ==
  \E h \in Slots :
    \/ \E u \in Users : \E text \in UserTexts : handle_message(h, u, text)
    \/ \E resp \in {NetError} \cup {Http(200, "ok", Str(t)) : t \in ConcurrentReplies} :
         generate_laddered_reply(h, resp)
    \/ handle_message_reply(h)
    \/ handle_message_more(h)
    \/ \E u \in Users : continue_reply(h, u)
    \/ continue_reply_pop(h)
    \/ continue_reply_more(h)

SpecConcurrent == InitConcurrent /\ [][NextConcurrent]_vars

(***************************************************************************)
(* One conversation of many text messages with short replies.              *)
(***************************************************************************)
HistoryTexts == {S(<<"h", "i">>)}
HistoryReplies == {S(<<"o", "k">>)}

InitHistory == InitBot(MaxMessages, FALSE)

NextHistory ==
  \E h \in Slots :
    \/ \E text \in HistoryTexts : handle_message(h, "u1", text)
    \/ \E resp \in {NetError, Loading} \cup {Http(200, "ok", Str(t)) : t \in HistoryReplies} :
         generate_laddered_reply(h, resp)
    \/ handle_message_reply(h)
    \/ handle_message_more(h)

SpecHistory == InitHistory /\ [][NextHistory]_vars

(***************************************************************************)
(* The split alone, over texts whose lengths lie around the multiples of   *)
(* chunk_size.                                                             *)
(***************************************************************************)
SplitLengths ==
  {n \in {k * chunk_size + d : k \in 0..MaxChunks, d \in {-1, 0, 1, 1000}} : n >= 0}

\* texts of n characters: one run; a first character apart; a last character apart;
\* a change of character one before the first segment limit
SplitTexts ==
  UNION {{Rep("a", n),
          Cat(Rep("x", 1), Rep("a", n - 1)),
          Cat(Rep("a", n - 1), Rep(".", Min(n, 1))),
          Cat(Rep("a", Min(n, chunk_size - 1)), Rep("b", n - Min(n, chunk_size - 1)))} :
         n \in SplitLengths}

InitSplitBot ==
  /\ user_data = [u \in Users |-> [conversation_history |-> Missing,
                                   reply_chunks |-> Missing]]
  /\ sent = [u \in Users |-> <<>>]
  /\ hs = [h \in Slots |-> NoHandler]
  /\ running = 0
  /\ budget = 0
  /\ concurrent_updates = FALSE
  /\ replied = [u \in Users |-> <<>>]
  /\ appended = [u \in Users |-> <<>>]
  /\ probe_in \in SplitTexts
  /\ probe_out = [set |-> FALSE, v |-> <<>>]

\* line 234 applied to probe_in
split ==
  /\ ~probe_out.set
  /\ probe_out' = [set |-> TRUE, v |-> Chunks(probe_in)]
  /\ UNCHANGED <<user_data, sent, hs, running, budget, concurrent_updates, replied, appended,
                 probe_in>>

SpecSplit == InitSplitBot /\ [][split]_vars

(***************************************************************************)
(* Properties of the two provider ladders.                                 *)
(***************************************************************************)
\* the ladder a handler runs: the functions of line 189 or of line 147
LadderOf(h) ==
  CASE hs[h].kind = "msg" -> ai_funcs
    [] hs[h].kind = "imagine" -> funcs
    [] OTHER -> <<>>

\* the handler has left its ladder (line 225 or line 274 has returned)
LadderDone(h) ==
  \/ hs[h].kind = "msg" /\ hs[h].pc \in {"reply", "more", "done"}
  \/ hs[h].kind = "imagine" /\ hs[h].pc \in {"result", "done"} /\ hs[h].calls # <<>>

\* what the ladder returned to the handler
LadderResult(h) == IF hs[h].kind = "msg" THEN hs[h].reply ELSE hs[h].image

\* the ladder's result when no function succeeds: line 200, line 155
LadderFailure(h) == IF hs[h].kind = "msg" THEN Str(FAILURE_REPLY) ELSE None

\* a function's call succeeded: it returned a usable value
Succeeded(r) == ~r.raised /\ Truthy(r.value)

\* the calls made are the first functions of the list, each once, in list order
CalledInOrder(h) ==
  /\ Len(hs[h].calls) <= Len(LadderOf(h))
  /\ \A j \in 1..Len(hs[h].calls) : hs[h].calls[j] = LadderOf(h)[j]
  /\ Len(hs[h].rets) \in {Len(hs[h].calls), Len(hs[h].calls) - 1}

\* C1: The providers of a ladder are called in list order; a provider is called
\* only after every provider before it has failed; and once a provider succeeds
\* the ladder's result is that provider's result and no later provider is called.
C1_FirstSuccessWins ==
  \A h \in Slots :
    /\ CalledInOrder(h)
    /\ \A j \in 1..Len(hs[h].calls) :
         j < Len(hs[h].calls) => j <= Len(hs[h].rets) /\ ~Succeeded(hs[h].rets[j])
    /\ \A j \in 1..Len(hs[h].rets) :
         Succeeded(hs[h].rets[j]) =>
           /\ LadderDone(h)
           /\ Len(hs[h].calls) = j
           /\ LadderResult(h) = hs[h].rets[j].value

\* An image request whose first provider failed and whose second succeeded: the
\* third was never called, and the photo sent is the second provider's image.
C1_Witness ==
  \E h \in Slots :
    /\ hs[h].kind = "imagine"
    /\ hs[h].pc = "done"
    /\ hs[h].calls = <<"get_gemini_image_sdk", "get_openai_image">>
    /\ ~Succeeded(hs[h].rets[1])
    /\ hs[h].image = Str(S(<<"url1">>))
    /\ \E k \in 1..Len(sent[hs[h].user]) :
         sent[hs[h].user][k].line = 278 /\ sent[hs[h].user][k].photo = hs[h].image

\* C2: When every provider of a ladder fails, the ladder has called every
\* configured provider exactly once, in list order, and its result is the
\* failure outcome (the failure text for replies, None for images).
C2_AllFailGivesFailure ==
  \A h \in Slots :
    (LadderDone(h) /\ \A j \in 1..Len(hs[h].rets) : ~Succeeded(hs[h].rets[j])) =>
      /\ hs[h].calls = LadderOf(h)
      /\ Len(hs[h].rets) = Len(LadderOf(h))
      /\ LadderResult(h) = LadderFailure(h)

\* An image request all three of whose providers failed, answered by the failure
\* notice of line 280.
C2_Witness ==
  \E h \in Slots :
    /\ hs[h].kind = "imagine"
    /\ hs[h].pc = "done"
    /\ hs[h].calls = funcs
    /\ \A j \in 1..3 : ~Succeeded(hs[h].rets[j])
    /\ hs[h].image = None
    /\ \E k \in 1..Len(sent[hs[h].user]) :
         sent[hs[h].user][k].line = 280 /\ sent[hs[h].user][k].text = FAILURE_IMAGE

\* the outline of a response on which a provider cannot succeed: a network error,
\* an error status, or a body the code cannot read
FailureOutline(o) == o.exc \/ o.status \notin {200, 201} \/ o.shape # "ok"

\* C9: A provider whose call fails with a network error, an error status or a
\* malformed body returns None and raises nothing to the ladder, and the ladder
\* goes on to the next provider.
C9_FailuresAreAbsorbed ==
  \A h \in Slots :
    /\ \A j \in 1..Len(hs[h].rets) : ~hs[h].rets[j].raised
    /\ (hs[h].rets # <<>> /\ Len(hs[h].rets) = Len(hs[h].calls)
          /\ FailureOutline(hs[h].last)) =>
         hs[h].rets[Len(hs[h].rets)] = Return(None)
    /\ (hs[h].rets # <<>> /\ Len(hs[h].rets) = Len(hs[h].calls)
          /\ ~Succeeded(hs[h].rets[Len(hs[h].rets)])
          /\ Len(hs[h].calls) < Len(LadderOf(h))) =>
         /\ hs[h].pc = "ladder"
         /\ hs[h].i = Len(hs[h].calls) + 1

\* A text request whose first provider met a network error: the provider
\* returned None, and the ladder stands before the second provider.
C9_Witness ==
  \E h \in Slots :
    /\ hs[h].kind = "msg"
    /\ hs[h].pc = "ladder"
    /\ hs[h].calls = <<"get_openai_text">>
    /\ hs[h].last.exc
    /\ hs[h].rets = <<Return(None)>>
    /\ hs[h].i = 2

\* C7: When the status endpoint first reports "succeeded" on poll k, with
\* 1 <= k <= poll_attempts, the polled provider's result is the first output of
\* that payload, and exactly k polls are made: none follows the succeeded one.
C7_SucceededPollEndsPolling ==
  \A h \in Slots :
    hs[h].succeeded.at # 0 =>
      /\ hs[h].succeeded.at \in 1..poll_attempts
      /\ hs[h].polls = hs[h].succeeded.at
      /\ Len(hs[h].rets) = 3
      /\ hs[h].rets[3] = Return(hs[h].succeeded.output[1])
      /\ hs[h].image = hs[h].succeeded.output[1]
      /\ hs[h].pc \in {"result", "done"}

\* An image request whose prediction was reported "succeeded" on the last poll
\* of the budget, after poll_attempts - 1 polls that each slept poll_sleep
\* seconds; the photo sent is the payload's first output.
C7_Witness ==
  \E h \in Slots :
    /\ hs[h].kind = "imagine"
    /\ hs[h].pc = "done"
    /\ hs[h].succeeded = [at |-> poll_attempts,
                          output |-> <<Str(S(<<"out2">>)), Str(S(<<"out3">>))>>]
    /\ hs[h].polls = poll_attempts
    /\ hs[h].slept = (poll_attempts - 1) * poll_sleep
    /\ \E k \in 1..Len(sent[hs[h].user]) :
         sent[hs[h].user][k].line = 278
           /\ sent[hs[h].user][k].photo = Str(S(<<"out2">>))

(***************************************************************************)
(* Properties of the split and of the delivery of segments.                *)
(***************************************************************************)
\* C3: The segments of a reply, joined in order, are the reply; there are
\* ceil(len / chunk_size) of them (none for the empty reply); every segment but
\* the last has exactly chunk_size characters, and the last has from 1 to
\* chunk_size.
C3_SplitIsExact ==
  probe_out.set =>
    LET chunks == probe_out.v
        n == StrLen(probe_in)
    IN /\ Concat(chunks) = probe_in
       /\ Len(chunks) = (n + chunk_size - 1) \div chunk_size
       /\ \A k \in 1..Len(chunks) :
            /\ k < Len(chunks) => StrLen(chunks[k]) = chunk_size
            /\ StrLen(chunks[k]) \in 1..chunk_size

\* A reply of 2 * chunk_size + 1000 characters whose character changes one before
\* the first limit, split into segments of chunk_size, chunk_size and 1000.
C3_Witness ==
  /\ probe_out.set
  /\ probe_in = Cat(Rep("a", chunk_size - 1), Rep("b", chunk_size + 1001))
  /\ probe_out.v = <<Cat(Rep("a", chunk_size - 1), Rep("b", 1)), Rep("b", chunk_size),
                     Rep("b", 1000)>>

\* the segments sent to a user, in the order sent: the first segment of a reply
\* (line 235, without its prefix) and the segments sent on Continue (line 254)
SegmentsSent(u) ==
  LET ms == SelectSeq(sent[u], LAMBDA m : m.line \in {235, 254})
  IN [k \in 1..Len(ms) |->
        IF ms[k].line = 235 THEN Drop(ms[k].text, StrLen(ROBOT)) ELSE ms[k].text]

\* the segments queued for a user
Queued(u) == user_data[u].reply_chunks.v

\* the positions in sent[u] of the prompts of line 244
Prompts(u) == {k \in 1..Len(sent[u]) : sent[u][k].line = 244}

\* the positions in sent[u] of the calls of query.answer (line 251) made after the
\* first prompt
AnswersAfterPrompt(u) ==
  {k \in 1..Len(sent[u]) : sent[u][k].line = 251 /\ k > Least(Prompts(u))}

\* the Continue signals a user's queue has met: those received after the prompt of
\* line 244 that have passed the test of line 252
SignalsMet(u) ==
  IF Prompts(u) = {} THEN 0
  ELSE Cardinality(AnswersAfterPrompt(u))
         - Cardinality({h \in Slots : /\ hs[h].kind = "continue"
                                      /\ hs[h].user = u
                                      /\ hs[h].pc = "pop"})

\* a text-message handler of u stands between its first segment and its queue
Queueing(u) == \E h \in Slots : hs[h].kind = "msg" /\ hs[h].user = u /\ hs[h].pc = "more"

\* C4: In a conversation with one reply of N segments, the first segment is
\* delivered at once, the k-th Continue signal delivers segment k + 1, and the
\* segments delivered followed by the segments still queued are the N segments
\* in order: none duplicated, reordered or dropped.
C4_SegmentsInOrder ==
  \A u \in Users :
    Len(replied[u]) = 1 =>
      LET chunks == Chunks(replied[u][1])
      IN /\ SegmentsSent(u) # <<>>
         /\ SegmentsSent(u)[1] = chunks[1]
         /\ ~Queueing(u) =>
              /\ SegmentsSent(u) \o Queued(u) = chunks
              /\ Len(SegmentsSent(u)) = 1 + Min(SignalsMet(u), Len(chunks) - 1)

\* A reply of 2 * chunk_size + 1000 characters delivered in full by two Continue
\* signals: segments of chunk_size, chunk_size and 1000, and nothing left queued.
C4_Witness ==
  /\ replied["u1"] = <<Rep("a", 2 * chunk_size + 1000)>>
  /\ SegmentsSent("u1") = <<Rep("a", chunk_size), Rep("a", chunk_size), Rep("a", 1000)>>
  /\ user_data["u1"].reply_chunks = List(<<>>)
  /\ SignalsMet("u1") = 2
  /\ \A h \in Slots : Free(h)

\* C5: A Continue signal that finds the queue empty or absent delivers no
\* segment and leaves user_data (the queue and the history) as it was, whenever
\* and however often it comes.
C5_ContinueOnEmptyIsNoOp ==
  [][\A h \in Slots :
       /\ (hs'[h] # hs[h] /\ hs'[h].kind = "continue" /\ hs'[h].pc = "pop") =>
            /\ user_data' = user_data
            /\ \A u \in Users : SegmentsSent(u)' = SegmentsSent(u)
       /\ (hs'[h] # hs[h] /\ hs[h].kind = "continue" /\ hs[h].pc = "pop"
             /\ Queued(hs[h].user) = <<>>) =>
            /\ user_data' = user_data
            /\ sent' = sent
            /\ hs'[h].pc = "done"
            /\ hs'[h].next_chunk = None]_vars

\* A reply of two segments, delivered in full, and then one more Continue signal,
\* whose handler has finished without a segment.
C5_Witness ==
  \E h \in Slots :
    /\ hs[h].kind = "continue"
    /\ hs[h].pc = "done"
    /\ hs[h].next_chunk = None
    /\ Len(replied[hs[h].user]) = 1
    /\ Len(SegmentsSent(hs[h].user)) = 2
    /\ SegmentsSent(hs[h].user) = Chunks(replied[hs[h].user][1])
    /\ user_data[hs[h].user].reply_chunks = List(<<>>)

\* C10: With two Continue signals of one conversation handled concurrently,
\* every queued segment is delivered at most once and none is skipped: the
\* segments delivered followed by the segments still queued are the reply's
\* segments in order, and two handlers that both delivered took different
\* positions of the queue.
C10_ConcurrentContinues ==
  \A u \in Users :
    (Len(replied[u]) = 1 /\ ~Queueing(u)) =>
      LET chunks == Chunks(replied[u][1])
      IN /\ Len(SegmentsSent(u)) <= Len(chunks)
         /\ SegmentsSent(u) \o Queued(u) = chunks
         /\ \A g, h \in Slots :
              (/\ g # h
               /\ hs[g].kind = "continue" /\ hs[g].user = u /\ hs[g].pc = "more"
               /\ hs[h].kind = "continue" /\ hs[h].user = u /\ hs[h].pc = "more") =>
                \E j, k \in 2..Len(SegmentsSent(u)) :
                  /\ j # k
                  /\ hs[g].next_chunk = Str(chunks[j])
                  /\ hs[h].next_chunk = Str(chunks[k])

\* Two Continue handlers of u1 suspended together at the await of line 254, one
\* holding the second segment of the reply and the other the third.
C10_Witness ==
  /\ concurrent_updates
  /\ replied["u1"] = <<Rep("a", 2 * chunk_size + 1000)>>
  /\ \A h \in Slots : hs[h].kind = "continue" /\ hs[h].user = "u1" /\ hs[h].pc = "more"
  /\ {hs[h].next_chunk : h \in Slots} = {Str(Rep("a", chunk_size)), Str(Rep("a", 1000))}
  /\ Queued("u1") = <<>>

(***************************************************************************)
(* Properties of the history and of termination.                           *)
(***************************************************************************)
\* C6: After any sequence of appended turns the history holds at most
\* recent_turns turns, and they are the most recent ones in their original
\* order.
C6_HistoryIsCapped ==
  \A u \in Users :
    LET history == user_data[u].conversation_history
    IN history.t = "list" =>
         /\ Len(history.v) <= recent_turns
         /\ history.v = LastN(appended[u], recent_turns)

\* handler h is inside the call of line 136, which never returns: the handler,
\* and the event loop's thread that it holds, go no further
InCallForever(h) == hs[h].pc = "hung"

\* a request never has two results, and a finished request has one
OneOutcome(h) ==
  /\ hs[h].outcomes <= 1
  /\ (hs[h].pc = "done" /\ hs[h].kind = "msg") => hs[h].outcomes = 1
  /\ (hs[h].pc = "done" /\ hs[h].kind = "imagine" /\ hs[h].arg # <<>>) =>
       hs[h].outcomes = 1

\* one call of each provider, and at most poll_attempts polls after the submission
WithinBudget(h) ==
  /\ CalledInOrder(h)
  /\ hs[h].polls <= poll_attempts
  /\ hs[h].slept <= poll_attempts * poll_sleep

\* C8: The handling of a text or image request always terminates, with exactly
\* one outcome (a result or one failure notice), and waits on no provider beyond
\* its budget: no handler is ever left inside a call that does not return.
C8_HandlingTerminates ==
  \A h \in Slots :
    /\ OneOutcome(h)
    /\ WithinBudget(h)
    /\ ~InCallForever(h)

(***************************************************************************)
(* Properties of handlers running side by side.                            *)
(***************************************************************************)
\* handler h is inside a ladder: in a provider call, or in the sleep of the
\* polling loop, or between two of them
WaitingOnProvider(h) ==
  /\ hs[h].kind \in {"msg", "imagine"}
  /\ hs[h].pc \in {"ladder", "poll"}
  /\ running = h

\* C11: While the ladder of one conversation waits on a provider, a request or
\* Continue signal of another conversation can be handled: whenever a handler
\* of u1 is inside its ladder and the model has an update left to dispatch,
\* some slot can take an update of u2.
C11_OtherConversationsGoOn ==
  \A h \in Slots :
    (hs[h].user = "u1" /\ WaitingOnProvider(h) /\ budget > 0) =>
      \E g \in Slots : Dispatchable(g)

(***************************************************************************)
(* Properties of what the user is sent.                                    *)
(***************************************************************************)
\* the last call of the transport for u made at one of lines
LastSent(u, lines) ==
  sent[u][CHOOSE k \in 1..Len(sent[u]) :
            /\ sent[u][k].line \in lines
            /\ \A j \in (k + 1)..Len(sent[u]) : sent[u][j].line \notin lines]

\* the position in the ladder of handler h of the call that succeeded, or 0
SucceededAt(h) ==
  IF \E j \in 1..Len(hs[h].rets) : Succeeded(hs[h].rets[j])
    THEN CHOOSE j \in 1..Len(hs[h].rets) : Succeeded(hs[h].rets[j])
    ELSE 0

\* the failure message of the text modality as line 235 sends it
FailureReplySent == Cat(ROBOT, format_for_telegram(FAILURE_REPLY))

\* C12: When the ladder ends in failure the user is sent the one fixed failure
\* message of the modality, whatever the providers answered; when the ladder
\* succeeds the user is sent the provider's result (for text, the first segment
\* of its MarkdownV2 form) and not the failure message.
C12_FailureMessageIsFixed ==
  \A h \in Slots :
    LET u == hs[h].user
        j == SucceededAt(h)
    IN /\ (hs[h].kind = "msg" /\ hs[h].pc \in {"more", "done"}) =>
            LET m == LastSent(u, {235})
            IN IF j = 0
                 THEN m.text = FailureReplySent
                 ELSE /\ m.text =
                           Cat(ROBOT, Chunks(format_for_telegram(hs[h].rets[j].value.v))[1])
                      /\ m.text # FailureReplySent
       /\ (hs[h].kind = "imagine" /\ hs[h].pc = "done" /\ hs[h].calls # <<>>) =>
            LET m == LastSent(u, {276, 278, 280})
            IN IF j = 0
                 THEN m = Msg(280, "reply_text", FAILURE_IMAGE, None, FALSE)
                 ELSE /\ m.method = "reply_photo"
                      /\ m.photo = hs[h].rets[j].value
                      /\ m.text # FAILURE_IMAGE

\* A text message whose two providers failed, the second with an error status:
\* the reply sent is the fixed failure message.
C12_Witness ==
  \E h \in Slots :
    /\ hs[h].kind = "msg"
    /\ hs[h].pc = "done"
    /\ hs[h].calls = ai_funcs
    /\ SucceededAt(h) = 0
    /\ hs[h].last.status = 500
    /\ LastSent(hs[h].user, {235}).text = FailureReplySent

(***************************************************************************)
(* Properties of the polling loop.                                         *)
(***************************************************************************)
\* get_replicate_image has returned None to handler h
ReplicateFailed(h) ==
  /\ Len(hs[h].rets) = 3
  /\ hs[h].rets[3] = Return(None)
  /\ hs[h].image = None
  /\ hs[h].pc \in {"result", "done"}

\* C13: In the polling loop a status "failed" ends the polling at once with a
\* failure; any status other than "succeeded" and "failed" is followed by a
\* sleep of poll_sleep seconds and another poll; and when none of poll_attempts
\* polls reports a terminal status the attempt fails after exactly
\* poll_attempts polls.
C13_PollingEnds ==
  \A h \in Slots :
    /\ hs[h].polls <= poll_attempts
    /\ hs[h].job = "failed" => ReplicateFailed(h)
    /\ hs[h].job \in {"starting", "processing"} =>
         /\ hs[h].slept = hs[h].polls * poll_sleep
         /\ IF hs[h].polls < poll_attempts
              THEN hs[h].pc = "poll" /\ Len(hs[h].rets) = 2
              ELSE ReplicateFailed(h)

\* A prediction still "processing" at each of poll_attempts polls: the attempt
\* has failed after poll_attempts polls and the user has the failure notice.
C13_Witness ==
  \E h \in Slots :
    /\ hs[h].kind = "imagine"
    /\ hs[h].pc = "done"
    /\ hs[h].job = "processing"
    /\ hs[h].polls = poll_attempts
    /\ hs[h].slept = poll_attempts * poll_sleep
    /\ ReplicateFailed(h)
    /\ LastSent(hs[h].user, {276, 278, 280}).line = 280

(***************************************************************************)
(* Properties of the queue after a reply.  In Spec one update is handled   *)
(* at a time, so a finished handler's record stands for the moment the     *)
(* handler returned.                                                       *)
(***************************************************************************)
\* the last call of the transport for u offered the Continue button
ContinueOffered(u) == sent[u] # <<>> /\ sent[u][Len(sent[u])].reply_markup

\* C14: After every delivery of a text segment, by handle_message or by
\* continue_reply, the Continue button is offered if and only if the
\* conversation's queue is non-empty at that moment.
C14_ButtonIffQueued ==
  \A h \in Slots :
    (/\ hs[h].pc = "done"
     /\ \/ hs[h].kind = "msg"
        \/ hs[h].kind = "continue" /\ hs[h].next_chunk # None) =>
      (ContinueOffered(hs[h].user) <=> Queued(hs[h].user) # <<>>)

\* C18: When handle_message has completed, the conversation's queue holds
\* exactly segments 2..n of the reply just generated, and nothing when that
\* reply fits in one segment.
C18_QueueIsOfLastReply ==
  \A h \in Slots :
    (hs[h].kind = "msg" /\ hs[h].pc = "done") =>
      Queued(hs[h].user) = Tail(hs[h].chunks)

(***************************************************************************)
(* Properties of empty results.                                            *)
(***************************************************************************)
\* a provider function returned None or "" without raising
Empty(r) == ~r.raised /\ r.value \in {None, Str(<<>>)}

\* C15: A provider that returns None or the empty string without raising has
\* failed: the ladder goes on to the next provider, and the ladder never
\* returns an empty result as a success (the text ladder returns a non-empty
\* text, the image ladder an image or, as its failure, None).
C15_EmptyIsFailure ==
  \A h \in Slots :
    /\ \A j \in 1..Len(hs[h].rets) :
         Empty(hs[h].rets[j]) =>
           /\ ~Succeeded(hs[h].rets[j])
           /\ IF j < Len(LadderOf(h))
                THEN \/ Len(hs[h].calls) > j
                     \/ hs[h].pc = "ladder" /\ hs[h].i = j + 1
                ELSE LadderDone(h) /\ LadderResult(h) = LadderFailure(h)
    /\ LadderDone(h) =>
         /\ LadderResult(h) # Str(<<>>)
         /\ LadderResult(h) = None => hs[h].kind = "imagine" /\ SucceededAt(h) = 0
         /\ SucceededAt(h) # 0 => ~Empty(hs[h].rets[SucceededAt(h)])

\* A text message whose first provider answered 200 with the empty string and
\* whose second provider's text became the reply.
C15_Witness ==
  \E h \in Slots :
    /\ hs[h].kind = "msg"
    /\ hs[h].pc = "done"
    /\ hs[h].calls = ai_funcs
    /\ hs[h].rets[1] = Return(Str(<<>>))
    /\ SucceededAt(h) = 2
    /\ hs[h].reply = hs[h].rets[2].value

(***************************************************************************)
(* Properties of the context and of the history.                           *)
(***************************************************************************)
\* the history of the user of handler h as it was at line 224: the stored
\* history, less the assistant turn once line 231 has appended it
HistoryAtCall(h) ==
  LET history == user_data[hs[h].user].conversation_history.v
  IN IF hs[h].pc \in {"ladder", "reply"} THEN history
     ELSE SubSeq(history, 1, Len(history) - 1)

\* C16: The context handle_message passes to the text ladder is the most recent
\* min(recent_turns, n) turns of the history in their order, n being the length
\* of the history once the user's message is appended; its last element is
\* that message.
C16_ContextIsRecentTurns ==
  \A h \in Slots :
    hs[h].kind = "msg" =>
      LET history == HistoryAtCall(h)
          messages == hs[h].messages
          n == Len(history)
      IN /\ Len(messages) = Min(recent_turns, n)
         /\ \A k \in 1..Len(messages) : messages[k] = history[n - Len(messages) + k]
         /\ messages[Len(messages)] = Turn("user", hs[h].arg)

\* The ninth message of a conversation: the history has 17 turns and the context
\* is its last recent_turns turns.
C16_Witness ==
  \E h \in Slots :
    /\ hs[h].kind = "msg"
    /\ hs[h].pc = "ladder"
    /\ Len(user_data[hs[h].user].conversation_history.v) = recent_turns + 2
    /\ Len(hs[h].messages) = recent_turns
    /\ hs[h].messages[1].role = "user"

\* C17: When a provider signals transient load, the provider client calls it
\* again (with a growing delay, up to a retry cap) rather than failing on the
\* first such response: a provider function that has returned after such a
\* signal has made more than one call.
C17_TransientLoadIsRetried ==
  \A h \in Slots :
    (hs[h].kind = "msg" /\ hs[h].rets # <<>> /\ hs[h].last = Outline(Loading)) =>
      hs[h].posts > 1


\* the text messages of u answered (line 235) since the last greeting of /start
HandledSinceStart(u) ==
  Cardinality({k \in 1..Len(sent[u]) :
                 /\ sent[u][k].line = 235
                 /\ \A j \in (k + 1)..Len(sent[u]) : sent[u][j].line # 212})

\* the text handlers of u between line 223 and line 231
BetweenTurns(u) ==
  Cardinality({h \in Slots : /\ hs[h].kind = "msg"
                             /\ hs[h].user = u
                             /\ hs[h].pc \in {"ladder", "reply"}})

\* a start handler of u stands between its greeting and line 213
Resetting(u) ==
  \E h \in Slots : hs[h].kind = "start" /\ hs[h].user = u /\ hs[h].pc = "reset"

\* C19: Every handled text message appends two turns to the history, the
\* user's and then the assistant's, with no turn of another message between
\* them: the history alternates user, assistant, and from an empty history
\* (a fresh conversation, or after /start) it has 2k turns after k handled
\* messages, the assistant's turn being the reply sent, failure message included.
C19_TwoTurnsPerMessage ==
  \A u \in Users :
    LET history == user_data[u].conversation_history.v
    IN /\ \A k \in 1..Len(history) :
            history[k].role = IF k % 2 = 1 THEN "user" ELSE "assistant"
       /\ ~Resetting(u) => Len(history) = 2 * HandledSinceStart(u) + BetweenTurns(u)
       /\ \A h \in Slots :
            (hs[h].kind = "msg" /\ hs[h].user = u /\ hs[h].pc \in {"more", "done"}) =>
              /\ history[Len(history) - 1] = Turn("user", hs[h].arg)
              /\ history[Len(history)] = Turn("assistant", hs[h].ai_reply)

\* After /start, two text messages, the second answered by the failure message:
\* four turns, the last one the failure message as sent.
C19_Witness ==
  /\ \E k \in 1..Len(sent["u1"]) : sent["u1"][k].line = 212
  /\ HandledSinceStart("u1") = 2
  /\ Len(user_data["u1"].conversation_history.v) = 4
  /\ user_data["u1"].conversation_history.v[4] =
       Turn("assistant", format_for_telegram(FAILURE_REPLY))
  /\ \A h \in Slots : Free(h)

====
